---- MODULE Spec2Model ----
(***************************************************************************)
(* Swapchain image lifecycle tracking of the OpenXR conformance layer      *)
(* (src/conformance/conformance_layer/Swapchain.cpp).                      *)
(*                                                                         *)
(* Every hook calls the runtime first, then inspects the result and the    *)
(* tracked state of the swapchain, reports non-conformance through         *)
(* ConformanceFailure and returns the runtime's result.  The runtime is    *)
(* the environment: its result codes, image counts and image indices are   *)
(* drawn from small sets.                                                  *)
(***************************************************************************)
EXTENDS Integers, Sequences, FiniteSets

VARIABLES
    created,             \* created[s]: a CustomSwapchainState is attached to handle s
    isStatic,            \* CustomSwapchainState::isStatic
    createInfo,          \* CustomSwapchainState::createInfo (format, usageFlags)
    graphicsBinding,     \* CustomSwapchainState::graphicsBinding
    imageStates,         \* CustomSwapchainState::imageStates (std::vector<ImageState>)
    acquiredSwapchains,  \* CustomSwapchainState::acquiredSwapchains (std::queue<uint32_t>)
    crashed,             \* the process died in an out-of-bounds vector access
    last,                \* the hook call that ran last: its inputs, diagnostics, return
    enumerated,          \* enumerated[s]: a successful enumeration has reported a count for s
    conformant,          \* conformant[s]: no diagnostic has been raised on s so far
    scenario,            \* scenario[s]: how far s has followed the probe/acquire/wait/release scenario
    history,             \* history[s]: the indices pushed and the indices released so far, when kept
    pc,                  \* pc[t]: where application thread t is in the hook it is running
    frame,               \* frame[t]: arguments, outputs and locals of the hook thread t is running
    mutex,               \* mutex[s]: CustomSwapchainState::mutex (std::recursive_mutex)
    registry,            \* the handle registry: the keys present, and its last operation
    builder              \* a Gltf::ModelBuilder: its members, and its last Build call

vars == <<created, isStatic, createInfo, graphicsBinding, imageStates,
          acquiredSwapchains, crashed, last, enumerated, conformant, scenario, history,
          pc, frame, mutex, registry, builder>>

----------------------------------------------------------------------------
(* Bounds of the model *)

\* largest image count the runtime reports
MaxImages == 2
\* the acquired queue is unbounded in the code; Acquire is explored up to this length
MaxAcquired == 2
\* wait timeouts and measured durations range over 0..MaxDuration
MaxDuration == 1
\* the history of pushed indices is kept for this many Acquire calls
MaxHistory == 3

\* XrSwapchain handles
Swapchains == {"swapchain1", "swapchain2"}

\* the application creates one swapchain
OneSwapchain == {"swapchain1"}

\* application threads calling into the layer
Threads == {"thread1", "thread2"}

\* XrSession handles
Sessions == {"session1", "session2"}

\* the application has one session
OneSession == {"session1"}

\* session::CustomSessionState::graphicsBinding of a session
SessionBinding(session) ==
    IF session = "session1" THEN "binding with validator" ELSE "binding without validator"

\* Conformance::CreateGraphicsValidator(graphicsBinding): a validator, or none
CreateGraphicsValidator(binding) == binding = "binding with validator"

\* XrSwapchainCreateInfo: format and usageFlags
CreateInfos ==
    {[format |-> "R8G8B8A8_SRGB", usageFlags |-> "COLOR_ATTACHMENT"],
     [format |-> "D32_FLOAT", usageFlags |-> "DEPTH_STENCIL_ATTACHMENT"]}

\* the application creates colour swapchains only
OneCreateInfo == {[format |-> "R8G8B8A8_SRGB", usageFlags |-> "COLOR_ATTACHMENT"]}

\* no swapchain state attached
NoInfo == [format |-> "none", usageFlags |-> "none"]

\* the image counts the runtime may report, 0 included
ImageCounts == 0..MaxImages

\* a runtime whose swapchains have three images, as in the probe/acquire/wait/release
\* scenario
ScenarioCounts == {3}

\* a runtime whose swapchains have one image
SingleCount == {1}

\* a runtime whose swapchains have two images
DoubleCount == {2}

\* the index Acquire returns on a swapchain of one image
FirstIndex == {0}

----------------------------------------------------------------------------
(* Values *)

\* enum ImageState, as ToStr names it
ImageState == {"Created", "Acquired", "Waited", "Released"}

\* what a read past the end of imageStates can yield: any ImageState bit
\* pattern, including one that ToStr prints as "unknown"
GarbageState == ImageState \cup {"unknown"}

\* XrResult values the runtime can hand back
XrResults == {"XR_SUCCESS", "XR_TIMEOUT_EXPIRED", "XR_ERROR_RUNTIME_FAILURE"}

\* (mutant) a hook that goes on for XR_SUCCESS only
XR_SUCCEEDED_OnlySuccess(result) == result = "XR_SUCCESS"

\* (mutant) a hook that goes on whatever the runtime call returned
XR_SUCCEEDED_Always(result) == TRUE

\* XR_SUCCEEDED(result): result >= 0, which holds of the qualified successes too
XR_SUCCEEDED(result) == result \in {"XR_SUCCESS", "XR_TIMEOUT_EXPIRED"}

\* diagnostics, by the format string handed to NONCONFORMANT / NONCONFORMANT_IF
EmptyCount == "Invalid empty image count."
StaticCount == "Invalid image count %d for static swapchain."
CountDiffers == "Image count %d differs from previous count %d."
EnumerateFailed == "Unable to enumerate swapchain images due to error %s"
OutOfBounds == "Out-of-bounds image index."
AcquiredWaited == "Acquired image in Waited state."
AcquiredAcquired == "Acquired image already in Acquired state."
StaticReacquired == "Static image cannot be acquired again."
WaitEarly == "Wait returned before timeout."
WaitWrongState == "Wait succeeded for image in wrong state %s"
WaitNoImage == "Wait succeeded with no acquired image."
ReleaseWrongState == "Release succeeded for image in wrong state %s"
ReleaseNoImage == "Release succeeded with no acquired image."
NoReturn == "no return"
NoValue == 0 - 1

\* NONCONFORMANT_IF(condition, message): reports and carries on
NONCONFORMANT_IF(condition, message) == IF condition THEN {message} ELSE {}

----------------------------------------------------------------------------
(* The record of the last hook call *)

Call(op, s, result) ==
    [op |-> op, swapchain |-> s, result |-> result, returned |-> result,
     diags |-> {}, index |-> NoValue, count |-> NoValue, capacity |-> NoValue,
     images |-> FALSE, validated |-> <<>>, probe |-> FALSE, probeResult |-> "none",
     elapsed |-> NoValue, timeout |-> NoValue, before |-> "none",
     conformantBefore |-> TRUE, sizeBefore |-> 0, mutated |-> FALSE,
     repeated |-> FALSE, info |-> NoInfo, session |-> "none"]

\* the scenario of creation, a probe reporting 3 images, Acquire of image 0, Wait,
\* Release, Release: the number of its steps the calls on a swapchain have taken
\* so far, 0 when they have left it
ScenarioStep(at, call) ==
    CASE call.op = "xrCreateSwapchain" /\ XR_SUCCEEDED(call.result) -> 1
      [] at = 1 /\ call.op = "xrEnumerateSwapchainImages" /\ XR_SUCCEEDED(call.result)
              /\ call.capacity = 0 /\ ~call.images /\ call.count = 3 -> 2
      [] at = 2 /\ call.op = "xrAcquireSwapchainImage" /\ XR_SUCCEEDED(call.result)
              /\ call.index = 0 -> 3
      [] at = 3 /\ call.op = "xrWaitSwapchainImage" /\ call.result = "XR_SUCCESS" -> 4
      [] at = 4 /\ call.op = "xrReleaseSwapchainImage" /\ XR_SUCCEEDED(call.result) -> 5
      [] at = 5 /\ call.op = "xrReleaseSwapchainImage" /\ XR_SUCCEEDED(call.result) -> 6
      [] OTHER -> 0

----------------------------------------------------------------------------
(* Pieces of the hooks *)

\* the value a hook returns: the runtime's result, untouched
HookReturn(result) == result

\* imageStates[index] with a uint32_t index counted from 0
InBounds(states, index) == index < Len(states)

At(states, index) == states[index + 1]

\* what an out-of-bounds imageStates[index] can do: kill the process, or read
\* some bit pattern while the write lands outside the vector's elements
OutOfBoundsAccess == {"crash"} \cup GarbageState

\* (mutant) every enumeration resizes imageStates to the reported count
EnumerateImageStates_Resize(states, count) ==
    [i \in 1..count |-> IF i <= Len(states) THEN states[i] ELSE "Created"]

\* (mutant) an enumeration that never sets up imageStates
EnumerateImageStates_NoResize(states, count) == states

\* (mutant) the first enumeration allocates one image state too many
EnumerateImageStates_OneMore(states, count) ==
    IF states = <<>> THEN [i \in 1..(count + 1) |-> "Created"] ELSE states

\* if (imageStates.empty()) imageStates.resize(*imageCountOutput, ImageState::Created)
EnumerateImageStates(states, count) ==
    IF states = <<>> THEN [i \in 1..count |-> "Created"] ELSE states

\* (mutant) the comparison with the recorded size flags only a larger count
EnumerateDiags_OnlyLarger(states, static, count) ==
    NONCONFORMANT_IF(count = 0, EmptyCount)
    \cup NONCONFORMANT_IF(count # 1 /\ static, StaticCount)
    \cup NONCONFORMANT_IF(Len(EnumerateImageStates(states, count)) < count, CountDiffers)

\* (mutant) the comparison with the recorded size runs before the resize
EnumerateDiags_BeforeResize(states, static, count) ==
    NONCONFORMANT_IF(count = 0, EmptyCount)
    \cup NONCONFORMANT_IF(count # 1 /\ static, StaticCount)
    \cup NONCONFORMANT_IF(Len(states) # count, CountDiffers)

\* (mutant) the static-count check made only while imageStates is still empty
EnumerateDiags_StaticOnce(states, static, count) ==
    NONCONFORMANT_IF(count = 0, EmptyCount)
    \cup NONCONFORMANT_IF(count # 1 /\ static /\ states = <<>>, StaticCount)
    \cup NONCONFORMANT_IF(Len(EnumerateImageStates(states, count)) # count, CountDiffers)

\* the three checks of xrEnumerateSwapchainImages on the reported count
EnumerateDiags(states, static, count) ==
    NONCONFORMANT_IF(count = 0, EmptyCount)
    \cup NONCONFORMANT_IF(count # 1 /\ static, StaticCount)
    \cup NONCONFORMANT_IF(Len(EnumerateImageStates(states, count)) # count, CountDiffers)

\* (mutant) the validator runs also when no image array was passed
ValidatorCalls_NullImages(validator, images, info, count) ==
    IF validator
    THEN <<[call |-> "ValidateSwapchainImageStructs", with |-> info.format, count |-> count],
           [call |-> "ValidateUsageFlags", with |-> info.usageFlags, count |-> count]>>
    ELSE <<>>

\* the validator methods a successful Enumerate invokes, in order
ValidatorCalls(validator, images, info, count) ==
    IF images /\ validator
    THEN <<[call |-> "ValidateSwapchainImageStructs", with |-> info.format, count |-> count],
           [call |-> "ValidateUsageFlags", with |-> info.usageFlags, count |-> count]>>
    ELSE <<>>

\* (mutant) the check for an image still in Waited state left out
AcquireDiags_NoWaited(imageState, static) ==
    NONCONFORMANT_IF(imageState = "Acquired", AcquiredAcquired)
    \cup NONCONFORMANT_IF(imageState = "Released" /\ static, StaticReacquired)

\* (mutant) no check of a static image acquired again
AcquireDiags_NoStatic(imageState, static) ==
    NONCONFORMANT_IF(imageState = "Waited", AcquiredWaited)
    \cup NONCONFORMANT_IF(imageState = "Acquired", AcquiredAcquired)

\* (mutant) the re-acquire check applied to every swapchain, static or not
AcquireDiags_AlwaysStatic(imageState, static) ==
    NONCONFORMANT_IF(imageState = "Waited", AcquiredWaited)
    \cup NONCONFORMANT_IF(imageState = "Acquired", AcquiredAcquired)
    \cup NONCONFORMANT_IF(imageState = "Released", StaticReacquired)

\* the checks of xrAcquireSwapchainImage on the state read at the acquired index
AcquireDiags(imageState, static) ==
    NONCONFORMANT_IF(imageState = "Waited", AcquiredWaited)
    \cup NONCONFORMANT_IF(imageState = "Acquired", AcquiredAcquired)
    \cup NONCONFORMANT_IF(imageState = "Released" /\ static, StaticReacquired)

\* (mutant) an Acquire that leaves an image alone unless it is Created or Released
AcquireImageStates_Guarded(states, index) ==
    IF states[index + 1] \in {"Acquired", "Waited"}
    THEN states
    ELSE [states EXCEPT ![index + 1] = "Acquired"]

\* (mutant) an Acquire that never turns a Released image back to Acquired
AcquireImageStates_KeepReleased(states, index) ==
    IF states[index + 1] = "Released"
    THEN states
    ELSE [states EXCEPT ![index + 1] = "Acquired"]

\* imageState = ImageState::Acquired
AcquireImageStates(states, index) == [states EXCEPT ![index + 1] = "Acquired"]

\* (mutant) the newest index goes to the front of the queue
AcquirePush_Front(queue, index) == <<index>> \o queue

\* acquiredSwapchains.push(*index)
AcquirePush(queue, index) == Append(queue, index)

\* the check of xrWaitSwapchainImage on the state read at the queue front
WaitDiags(imageState) == NONCONFORMANT_IF(imageState # "Acquired", WaitWrongState)

\* (mutant) a Wait that marks every acquired image Waited, not only the oldest
WaitImageStates_AllAcquired(states, index) ==
    [i \in 1..Len(states) |->
        IF i = index + 1 \/ states[i] = "Acquired" THEN "Waited" ELSE states[i]]

\* imageState = ImageState::Waited
WaitImageStates(states, index) == [states EXCEPT ![index + 1] = "Waited"]

\* (mutant) a wait that lasted exactly the timeout counts as early
WaitTimeoutDiags_OrEqual(elapsed, timeout) ==
    NONCONFORMANT_IF(elapsed <= timeout, WaitEarly)

\* NONCONFORMANT_IF(waitDuration < waitInfo->timeout, ...)
WaitTimeoutDiags(elapsed, timeout) == NONCONFORMANT_IF(elapsed < timeout, WaitEarly)

\* the check of xrReleaseSwapchainImage on the state read at the queue front
ReleaseDiags(imageState) == NONCONFORMANT_IF(imageState # "Waited", ReleaseWrongState)

\* (mutant) a Release that pops without marking the image Released
ReleaseImageStates_Keep(states, index) == states

\* imageState = ImageState::Released
ReleaseImageStates(states, index) == [states EXCEPT ![index + 1] = "Released"]

\* (mutant) a Release that leaves the queue as it is
ReleasePop_Keep(queue) == queue

\* acquiredSwapchains.pop()
ReleasePop(queue) == Tail(queue)

\* the history after the runtime call of a hook: a successful Acquire adds the
\* index the runtime handed out to performed
Perform(h, op, result, index) ==
    IF h.on /\ op = "xrAcquireSwapchainImage" /\ XR_SUCCEEDED(result)
    THEN [h EXCEPT !.performed = Append(@, index)]
    ELSE h

\* the history after a call: an Acquire that got to its push adds its index to
\* pushed, a Release that found the queue non-empty and got to its pop adds the
\* index it used to released
Record(h, queue, call) ==
    IF ~h.on \/ call.returned = NoReturn \/ ~XR_SUCCEEDED(call.result) THEN h
    ELSE IF call.op = "xrAcquireSwapchainImage"
         THEN [h EXCEPT !.pushed = Append(@, call.index)]
    ELSE IF call.op = "xrReleaseSwapchainImage" /\ queue # <<>>
         THEN [h EXCEPT !.released = Append(@, call.index)]
    ELSE h

\* a successful enumeration without an image array that reports the count the
\* call right before it, of the same kind on the same swapchain, reported
Repeats(previous, call) ==
    /\ call.op = "xrEnumerateSwapchainImages" /\ previous.op = call.op
    /\ previous.swapchain = call.swapchain
    /\ call.count # NoValue /\ previous.count = call.count
    /\ ~call.images /\ ~previous.images

\* the end of a hook call on swapchain s: the tracked state it leaves and its
\* record, with what the call found (conformantBefore, sizeBefore), whether it
\* changed the tracked state (mutated) and whether it repeats the call before it
Commit(s, states, queue, call) ==
    /\ imageStates' = [imageStates EXCEPT ![s] = states]
    /\ acquiredSwapchains' = [acquiredSwapchains EXCEPT ![s] = queue]
    /\ last' = [call EXCEPT
                    !.conformantBefore = conformant[s],
                    !.sizeBefore = Len(imageStates[s]),
                    !.mutated = (states # imageStates[s] \/ queue # acquiredSwapchains[s]),
                    !.repeated = Repeats(last, call)]
    /\ crashed' = (call.returned = NoReturn)
    /\ enumerated' = [enumerated EXCEPT ![s] = @ \/ call.count # NoValue]
    /\ conformant' = [conformant EXCEPT ![s] = @ /\ call.diags = {}]
    /\ scenario' = [scenario EXCEPT ![s] = ScenarioStep(@, call)]
    /\ history' = [history EXCEPT ![s] =
                       Record(Perform(@, call.op, call.result, call.index),
                              acquiredSwapchains[s], call)]
    /\ UNCHANGED <<created, isStatic, createInfo, graphicsBinding, pc, frame, mutex,
                   registry, builder>>

----------------------------------------------------------------------------
(* The handle registry behind GetHandleState: a map from (handle, object type)
   to handle state records, with register, lookup and unregister *)

\* HandleToInt(handle): integer handle values
HandleValues == {1, 2}

\* XrObjectType tags
ObjectTypes == {"XR_OBJECT_TYPE_SESSION", "XR_OBJECT_TYPE_SWAPCHAIN"}

\* the keys of the registry: {HandleToInt(handle), XR_OBJECT_TYPE_...}
HandleKeys == HandleValues \X ObjectTypes

RegistryOps == {"register", "lookup", "unregister"}

NoKey == <<0, "none">>

\* a registry holding no record, on which nothing was called yet; balance[key]:
\* the successful registers of the key minus its successful unregisters;
\* freed: the keys unregistered and not registered again since
EmptyRegistry ==
    [present |-> {}, balance |-> [key \in HandleKeys |-> 0], freed |-> {},
     op |-> "none", key |-> NoKey, outcome |-> "none", changed |-> FALSE]

\* (mutant) an unregister that takes an absent key for done
RegistryOutcome_LenientUnregister(op, present, key) ==
    CASE op = "register" -> IF key \in present THEN "DuplicateHandle" ELSE "ok"
      [] op = "unregister" -> "ok"
      [] OTHER -> IF key \in present THEN "ok" ELSE "UnknownHandle"

\* how register, lookup and unregister end: register fails on a key already
\* present, lookup and unregister fail on an absent key
RegistryOutcome(op, present, key) ==
    CASE op = "register" -> IF key \in present THEN "DuplicateHandle" ELSE "ok"
      [] OTHER -> IF key \in present THEN "ok" ELSE "UnknownHandle"

\* the keys present after the operation: a failed operation changes nothing
RegistryPresent(op, present, key) ==
    IF RegistryOutcome(op, present, key) # "ok" THEN present
    ELSE CASE op = "register" -> present \cup {key}
           [] op = "unregister" -> present \ {key}
           [] OTHER -> present

\* the count of successful registers minus successful unregisters of each key
RegistryBalance(op, present, key, balance) ==
    IF RegistryOutcome(op, present, key) # "ok" THEN balance
    ELSE CASE op = "register" -> [balance EXCEPT ![key] = @ + 1]
           [] op = "unregister" -> [balance EXCEPT ![key] = @ - 1]
           [] OTHER -> balance

\* register, lookup (as GetHandleState does for GetSwapchainState) or unregister
RegistryCall(op, key) ==
    /\ registry' =
          [present |-> RegistryPresent(op, registry.present, key),
           balance |-> RegistryBalance(op, registry.present, key, registry.balance),
           freed |-> IF RegistryOutcome(op, registry.present, key) # "ok"
                     THEN registry.freed
                     ELSE CASE op = "register" -> registry.freed \ {key}
                            [] op = "unregister" -> registry.freed \cup {key}
                            [] OTHER -> registry.freed,
           op |-> op, key |-> key,
           outcome |-> RegistryOutcome(op, registry.present, key),
           changed |-> RegistryPresent(op, registry.present, key) # registry.present]
    /\ UNCHANGED <<created, isStatic, createInfo, graphicsBinding, imageStates,
                   acquiredSwapchains, crashed, last, enumerated, conformant, scenario,
                   history, pc, frame, mutex, builder>>

RegistryNext == \E op \in RegistryOps, key \in HandleKeys : RegistryCall(op, key)

----------------------------------------------------------------------------
(* Gltf::ModelBuilder: built from a glTF model by its constructor, turned into
   a Pbr::Model by Build, which talks to a Pbr::IGltfBuilder *)

\* the glTF model has up to MaxMaterials materials
MaxMaterials == 2
\* Build is explored up to this many calls on one builder
MaxBuilds == 3

\* gltfPrimitive.material as LoadNode reads it: -1 for none, or an index, which
\* nothing compares with the number of materials
MaterialIndices == (0 - 1)..MaxMaterials

NoMaterial == 0 - 2

\* the texture slots Build loads for a material, in order
TextureSlots ==
    <<"BaseColor", "MetallicRoughness", "Emissive", "Normal", "Occlusion">>

\* a call of a Pbr::IGltfBuilder method: for which material index, with or
\* yielding which material, for which texture slot
GltfCall(call, index, material, slot) ==
    [call |-> call, index |-> index, material |-> material, slot |-> slot]

\* no ModelBuilder constructed
NoBuilder ==
    [constructed |-> FALSE, pbrModel |-> FALSE, gltfModel |-> FALSE, materials |-> 0,
     primitiveBuilderMap |-> {}, builds |-> 0, returns |-> 0, outcome |-> "none",
     calls |-> <<>>, primitives |-> <<>>,
     found |-> [pbrModel |-> FALSE, gltfModel |-> FALSE, materials |-> 0,
                primitiveBuilderMap |-> {}]]

\* the builder the constructor leaves (SharedInit): a Pbr::Model, the glTF
\* model, and one primitive builder per material index the scene uses
Constructed(indices, materials) ==
    [NoBuilder EXCEPT !.constructed = TRUE, !.pbrModel = TRUE, !.gltfModel = TRUE,
                      !.materials = materials, !.primitiveBuilderMap = indices]

\* the keys of a std::map<int, ...> in iteration order
RECURSIVE InOrder(_)
InOrder(indices) ==
    IF indices = {} THEN <<>>
    ELSE LET least == CHOOSE i \in indices : \A j \in indices : i <= j
         IN  <<least>> \o InOrder(indices \ {least})

\* m_gltfModel->materials.at(materialIndex) finds a material
HasMaterial(index, materials) == index >= 0 /\ index < materials

\* the first loop of Build throws std::out_of_range at some primitive builder
MaterialMissing(indices, materials) ==
    \E index \in indices : index # 0 - 1 /\ ~HasMaterial(index, materials)

\* the first loop of Build from its k-th map entry on: one material per entry,
\* the k-th material made for the k-th entry, until materials.at throws
RECURSIVE LoadMaterials(_, _, _)
LoadMaterials(order, materials, k) ==
    IF k > Len(order) THEN <<>>
    ELSE IF order[k] = 0 - 1
         THEN <<GltfCall("CreateFlatMaterial", order[k], k, "none")>>
              \o LoadMaterials(order, materials, k + 1)
    ELSE IF ~HasMaterial(order[k], materials) THEN <<>>
    ELSE <<GltfCall("CreateMaterial", order[k], k, "none")>>
         \o [n \in 1..Len(TextureSlots) |->
                GltfCall("LoadTexture", order[k], k, TextureSlots[n])]
         \o LoadMaterials(order, materials, k + 1)

\* (mutant) every primitive gets the first material of the map
MaterialFor_First(order, index) == 1

\* materialMap.find(materialIndex)->second: the material made for that entry
MaterialFor(order, index) == CHOOSE k \in 1..Len(order) : order[k] = index

\* the second loop of Build: one MakePrimitive per primitive builder
MakePrimitives(order) ==
    [k \in 1..Len(order) |->
        GltfCall("MakePrimitive", order[k], MaterialFor(order, order[k]), "none")]

\* Gltf::ModelBuilder::Build(gltfBuilder)
Build ==
    /\ builder.constructed
    /\ builder.builds < MaxBuilds
    /\ LET order == InOrder(builder.primitiveBuilderMap)
           found == [pbrModel |-> builder.pbrModel, gltfModel |-> builder.gltfModel,
                     materials |-> builder.materials,
                     primitiveBuilderMap |-> builder.primitiveBuilderMap]
           called == [builder EXCEPT !.builds = @ + 1, !.found = found,
                                     !.primitives = <<>>]
       IN  builder' =
             IF ~builder.pbrModel
             THEN [called EXCEPT !.outcome = "logic_error", !.calls = <<>>]
             ELSE IF MaterialMissing(builder.primitiveBuilderMap, builder.materials)
             THEN [called EXCEPT !.outcome = "out_of_range",
                                 !.calls = LoadMaterials(order, builder.materials, 1)]
             ELSE [called EXCEPT
                      !.outcome = "returned",
                      !.returns = @ + 1,
                      !.calls = LoadMaterials(order, builder.materials, 1)
                                \o MakePrimitives(order)
                                \o <<GltfCall("DropLoaderCaches", NoMaterial, 0, "none")>>,
                      !.primitives = [k \in 1..Len(order) |-> order[k]],
                      !.pbrModel = FALSE,
                      !.gltfModel = FALSE,
                      !.materials = 0,
                      !.primitiveBuilderMap = {}]
    /\ UNCHANGED <<created, isStatic, createInfo, graphicsBinding, imageStates,
                   acquiredSwapchains, crashed, last, enumerated, conformant, scenario,
                   history, pc, frame, mutex, registry>>

----------------------------------------------------------------------------
(* Initial state: no swapchain created yet *)

NoCall == Call("none", "none", "none")

\* a thread outside the hooks
NoFrame ==
    [op |-> "none", swapchain |-> "none", index |-> NoValue, count |-> NoValue,
     seenStates |-> <<>>, seenQueue |-> <<>>, lookupUnder |-> {}]

\* a std::recursive_mutex nobody holds
Unlocked == [owner |-> "none", count |-> 0]

\* no Acquire performed by the runtime, no index pushed or released yet; on: the
\* history is kept
NoHistory(on) == [on |-> on, performed |-> <<>>, pushed |-> <<>>, released |-> <<>>]

NoSwapchains ==
    /\ created = [s \in Swapchains |-> FALSE]
    /\ isStatic = [s \in Swapchains |-> FALSE]
    /\ createInfo = [s \in Swapchains |-> NoInfo]
    /\ graphicsBinding = [s \in Swapchains |-> "none"]
    /\ imageStates = [s \in Swapchains |-> <<>>]
    /\ acquiredSwapchains = [s \in Swapchains |-> <<>>]
    /\ crashed = FALSE
    /\ last = NoCall
    /\ enumerated = [s \in Swapchains |-> FALSE]
    /\ conformant = [s \in Swapchains |-> TRUE]
    /\ scenario = [s \in Swapchains |-> 0]
    /\ pc = [t \in Threads |-> "idle"]
    /\ frame = [t \in Threads |-> NoFrame]
    /\ mutex = [s \in Swapchains |-> Unlocked]
    /\ registry = EmptyRegistry

Init ==
    /\ NoSwapchains
    /\ history = [s \in Swapchains |-> NoHistory(FALSE)]
    /\ builder = NoBuilder

\* the same, with the history of pushed and released indices kept
HistoryInit ==
    /\ NoSwapchains
    /\ history = [s \in Swapchains |-> NoHistory(TRUE)]
    /\ builder = NoBuilder

----------------------------------------------------------------------------
(* The hooks *)

\* ConformanceHooks::xrCreateSwapchain
xrCreateSwapchain(s, infos, sessions) ==
    /\ ~crashed
    /\ ~created[s]
    /\ \E result \in XrResults, static \in BOOLEAN, info \in infos, session \in sessions :
         LET call == [Call("xrCreateSwapchain", s, result) EXCEPT
                         !.returned = HookReturn(result),
                         !.info = info,
                         !.session = session]
         IN  /\ IF XR_SUCCEEDED(result)
                THEN /\ created' = [created EXCEPT ![s] = TRUE]
                     /\ isStatic' = [isStatic EXCEPT ![s] = static]
                     /\ createInfo' = [createInfo EXCEPT ![s] = info]
                     /\ graphicsBinding' =
                            [graphicsBinding EXCEPT ![s] = SessionBinding(session)]
                     /\ imageStates' = [imageStates EXCEPT ![s] = <<>>]
                     /\ acquiredSwapchains' = [acquiredSwapchains EXCEPT ![s] = <<>>]
                ELSE UNCHANGED <<created, isStatic, createInfo, graphicsBinding,
                                 imageStates, acquiredSwapchains>>
             /\ last' = call
             /\ scenario' = [scenario EXCEPT ![s] = ScenarioStep(@, call)]
             /\ UNCHANGED <<crashed, enumerated, conformant, history, pc, frame, mutex,
                            registry, builder>>

\* ConformanceHooks::xrEnumerateSwapchainImages.  countOutput: imageCountOutput is
\* not null; images: the image array is not null (capacity 0 goes with no array,
\* as in the two-call idiom).  A failed call reports no count.
xrEnumerateSwapchainImages(s, counts) ==
    /\ ~crashed
    /\ created[s]
    /\ \E result \in XrResults, countOutput \in BOOLEAN, count \in counts \cup {NoValue},
          images \in BOOLEAN :
         LET tracked == XR_SUCCEEDED(result) /\ countOutput
             validator == CreateGraphicsValidator(graphicsBinding[s])
             call == [Call("xrEnumerateSwapchainImages", s, result) EXCEPT
                         !.returned = HookReturn(result),
                         !.capacity = IF ~images THEN 0 ELSE IF count > 0 THEN count ELSE 1,
                         !.images = images,
                         !.count = count,
                         !.validated = IF tracked
                                       THEN ValidatorCalls(validator, images,
                                                           createInfo[s], count)
                                       ELSE <<>>,
                         !.diags = IF tracked
                                   THEN EnumerateDiags(imageStates[s], isStatic[s], count)
                                   ELSE {}]
         IN  /\ countOutput = (count # NoValue)
             /\ XR_SUCCEEDED(result) \/ ~countOutput
             /\ Commit(s,
                       IF tracked THEN EnumerateImageStates(imageStates[s], count)
                                  ELSE imageStates[s],
                       acquiredSwapchains[s], call)

\* ConformanceHooks::xrAcquireSwapchainImage, with the xrEnumerateSwapchainImages
\* hook it calls when imageStates is empty
xrAcquireSwapchainImage(s, counts) ==
    /\ ~crashed
    /\ created[s]
    /\ \E result \in XrResults, enumRes \in XrResults, count \in counts \cup {NoValue} :
       \E index \in 0..(IF count = NoValue THEN Len(imageStates[s]) ELSE count) :
         LET tracked == XR_SUCCEEDED(result)
             probe == tracked /\ imageStates[s] = <<>>
             probed == probe /\ XR_SUCCEEDED(enumRes)
             states == IF probed THEN EnumerateImageStates(imageStates[s], count)
                                 ELSE imageStates[s]
             before ==
                 IF probe
                 THEN (IF probed THEN EnumerateDiags(imageStates[s], isStatic[s], count)
                                 ELSE {})
                      \cup NONCONFORMANT_IF(~XR_SUCCEEDED(enumRes), EnumerateFailed)
                 ELSE NONCONFORMANT_IF(tracked /\ index >= Len(imageStates[s]), OutOfBounds)
             call == [Call("xrAcquireSwapchainImage", s, result) EXCEPT
                         !.index = IF tracked THEN index ELSE NoValue,
                         !.probe = probe,
                         !.probeResult = IF probe THEN enumRes ELSE "none",
                         !.capacity = IF probe THEN 0 ELSE NoValue,
                         !.count = count]
         IN  /\ IF tracked THEN index <= Len(states) ELSE index = 0
             /\ probe \/ enumRes = "XR_SUCCESS"
             /\ probed = (count # NoValue)
             /\ tracked => Len(acquiredSwapchains[s]) < MaxAcquired
             /\ (tracked /\ history[s].on) => Len(history[s].pushed) < MaxHistory
             /\ \E access \in IF tracked /\ ~InBounds(states, index)
                               THEN OutOfBoundsAccess ELSE {"in bounds"} :
                  CASE ~tracked ->
                         Commit(s, states, acquiredSwapchains[s],
                                [call EXCEPT !.returned = HookReturn(result)])
                    [] tracked /\ access = "in bounds" ->
                         Commit(s, AcquireImageStates(states, index),
                                AcquirePush(acquiredSwapchains[s], index),
                                [call EXCEPT
                                    !.returned = HookReturn(result),
                                    !.before = At(states, index),
                                    !.diags = before \cup AcquireDiags(At(states, index),
                                                                       isStatic[s])])
                    [] tracked /\ access = "crash" ->
                         Commit(s, states, acquiredSwapchains[s],
                                [call EXCEPT !.returned = NoReturn, !.diags = before])
                    [] OTHER ->
                         Commit(s, states, AcquirePush(acquiredSwapchains[s], index),
                                [call EXCEPT
                                    !.returned = HookReturn(result),
                                    !.before = access,
                                    !.diags = before \cup AcquireDiags(access, isStatic[s])])

\* ConformanceHooks::xrWaitSwapchainImage
xrWaitSwapchainImage(s) ==
    /\ ~crashed
    /\ created[s]
    /\ \E result \in XrResults, timeout \in 0..MaxDuration, elapsed \in 0..MaxDuration :
         LET queue == acquiredSwapchains[s]
             states == imageStates[s]
             call == [Call("xrWaitSwapchainImage", s, result) EXCEPT
                         !.returned = HookReturn(result)]
         IN  /\ result = "XR_TIMEOUT_EXPIRED" \/ (timeout = 0 /\ elapsed = 0)
             /\ \E access \in IF result = "XR_SUCCESS" /\ queue # <<>>
                                  /\ ~InBounds(states, Head(queue))
                               THEN OutOfBoundsAccess ELSE {"in bounds"} :
                  CASE result = "XR_TIMEOUT_EXPIRED" ->
                         Commit(s, states, queue,
                                [call EXCEPT
                                    !.timeout = timeout, !.elapsed = elapsed,
                                    !.diags = WaitTimeoutDiags(elapsed, timeout)])
                    [] result = "XR_SUCCESS" /\ queue = <<>> ->
                         Commit(s, states, queue, [call EXCEPT !.diags = {WaitNoImage}])
                    [] result = "XR_SUCCESS" /\ queue # <<>> /\ access = "in bounds" ->
                         Commit(s, WaitImageStates(states, Head(queue)), queue,
                                [call EXCEPT
                                    !.index = Head(queue),
                                    !.before = At(states, Head(queue)),
                                    !.diags = WaitDiags(At(states, Head(queue)))])
                    [] result = "XR_SUCCESS" /\ queue # <<>> /\ access = "crash" ->
                         Commit(s, states, queue,
                                [call EXCEPT !.index = Head(queue), !.returned = NoReturn])
                    [] result = "XR_SUCCESS" /\ queue # <<>> ->
                         Commit(s, states, queue,
                                [call EXCEPT
                                    !.index = Head(queue), !.before = access,
                                    !.diags = WaitDiags(access)])
                    [] OTHER -> Commit(s, states, queue, call)

\* ConformanceHooks::xrReleaseSwapchainImage
xrReleaseSwapchainImage(s) ==
    /\ ~crashed
    /\ created[s]
    /\ \E result \in XrResults :
         LET queue == acquiredSwapchains[s]
             states == imageStates[s]
             tracked == XR_SUCCEEDED(result)
             call == [Call("xrReleaseSwapchainImage", s, result) EXCEPT
                         !.returned = HookReturn(result)]
         IN  \E access \in IF tracked /\ queue # <<>> /\ ~InBounds(states, Head(queue))
                            THEN OutOfBoundsAccess ELSE {"in bounds"} :
               CASE ~tracked -> Commit(s, states, queue, call)
                 [] tracked /\ queue = <<>> ->
                      Commit(s, states, queue, [call EXCEPT !.diags = {ReleaseNoImage}])
                 [] tracked /\ queue # <<>> /\ access = "in bounds" ->
                      Commit(s, ReleaseImageStates(states, Head(queue)), ReleasePop(queue),
                             [call EXCEPT
                                 !.index = Head(queue),
                                 !.before = At(states, Head(queue)),
                                 !.diags = ReleaseDiags(At(states, Head(queue)))])
                 [] tracked /\ queue # <<>> /\ access = "crash" ->
                      Commit(s, states, queue,
                             [call EXCEPT !.index = Head(queue), !.returned = NoReturn])
                 [] OTHER ->
                      Commit(s, states, ReleasePop(queue),
                             [call EXCEPT
                                 !.index = Head(queue), !.before = access,
                                 !.diags = ReleaseDiags(access)])

----------------------------------------------------------------------------
(* Any runtime: every image count up to MaxImages *)

Next ==
    \E s \in OneSwapchain :
        \/ xrCreateSwapchain(s, OneCreateInfo, OneSession)
        \/ xrEnumerateSwapchainImages(s, ImageCounts)
        \/ xrAcquireSwapchainImage(s, ImageCounts)
        \/ xrWaitSwapchainImage(s)
        \/ xrReleaseSwapchainImage(s)

Spec == Init /\ [][Next]_vars

(* A runtime that reports three images whenever it reports a count *)

ScenarioNext ==
    \E s \in OneSwapchain :
        \/ xrCreateSwapchain(s, OneCreateInfo, OneSession)
        \/ xrEnumerateSwapchainImages(s, ScenarioCounts)
        \/ xrAcquireSwapchainImage(s, ScenarioCounts)
        \/ xrWaitSwapchainImage(s)
        \/ xrReleaseSwapchainImage(s)

ScenarioSpec == Init /\ [][ScenarioNext]_vars

(* A runtime whose swapchains have two images, with the history of the pushed
   and released indices kept *)

HistoryNext ==
    \E s \in OneSwapchain :
        \/ xrCreateSwapchain(s, OneCreateInfo, OneSession)
        \/ xrEnumerateSwapchainImages(s, DoubleCount)
        \/ xrAcquireSwapchainImage(s, DoubleCount)
        \/ xrWaitSwapchainImage(s)
        \/ xrReleaseSwapchainImage(s)

HistorySpec == HistoryInit /\ [][HistoryNext]_vars

(* Two swapchains created with any creation parameters in any session; the
   application uses the first, of one image, and only creates the second *)

LifecycleNext ==
    \/ \E s \in Swapchains : xrCreateSwapchain(s, CreateInfos, Sessions)
    \/ \E s \in OneSwapchain :
          \/ xrEnumerateSwapchainImages(s, SingleCount)
          \/ xrAcquireSwapchainImage(s, SingleCount)
          \/ xrWaitSwapchainImage(s)
          \/ xrReleaseSwapchainImage(s)

LifecycleSpec == Init /\ [][LifecycleNext]_vars

(* The handle registry on its own *)

RegistrySpec == Init /\ [][RegistryNext]_vars

(* A model builder constructed from any glTF model within the bounds *)

BuilderInit ==
    /\ NoSwapchains
    /\ history = [s \in Swapchains |-> NoHistory(FALSE)]
    /\ \E indices \in SUBSET MaterialIndices, materials \in 0..MaxMaterials :
          builder = Constructed(indices, materials)

BuilderNext == Build

BuilderSpec == BuilderInit /\ [][BuilderNext]_vars

----------------------------------------------------------------------------
(* The hooks statement by statement, run by several threads.  The runtime call
   of a hook is made before the hook takes the swapchain's mutex; the nested
   xrEnumerateSwapchainImages of Acquire is made while holding it. *)

\* (mutant) a lock that excludes nobody
CanLock_Unguarded(m, t) == TRUE

\* (mutant) a std::mutex: the owner cannot lock again
CanLock_NotRecursive(m, t) == m.owner = "none"

\* std::recursive_mutex: free, or held by the locking thread itself
CanLock(m, t) == m.owner \in {"none", t}

\* std::unique_lock<std::recursive_mutex> lock(mutex)
LockBy(m, t) == [owner |-> t, count |-> m.count + 1]

\* the unique_lock goes out of scope
UnlockBy(m, t) ==
    IF m.count = 1 THEN Unlocked ELSE [owner |-> m.owner, count |-> m.count - 1]

\* the positions at which a thread is inside a critical section of its hook
Critical ==
    {"empty", "enumerate", "nested lock", "nested check", "nested mutate",
     "nested unlock", "check", "mutate", "unlock"}

\* the Acquire calls on s that have not pushed yet
AcquiresInFlight(s) ==
    {t \in Threads : pc[t] # "idle" /\ frame[t].op = "xrAcquireSwapchainImage"
                                    /\ frame[t].swapchain = s}

ThreadVarsUnchanged ==
    UNCHANGED <<created, isStatic, createInfo, graphicsBinding, last, enumerated,
                conformant, scenario, registry, builder>>

\* the locks swapchain::GetCustomSwapchainState(XrSwapchain) takes: it finds the
\* handle state through GetHandleState, under the lock of the handle registry
GetCustomSwapchainState_ByHandle == {"registry"}

\* the locks swapchain::GetCustomSwapchainState(HandleState*) takes: none, it
\* reads the custom state off the handle state the hook was called with
GetCustomSwapchainState == {}

\* the swapchains whose mutex thread t holds
Held(t) == {s \in Swapchains : mutex[s].owner = t}

\* the swapchain mutexes t holds while GetCustomSwapchainState takes the
\* registry lock, none when it takes no such lock
LookupUnder(t) == IF "registry" \in GetCustomSwapchainState THEN Held(t) ELSE {}

\* thread t calls a hook: the runtime call returns, and the hook either returns
\* at once (lines 85-86, 120, 154-159, 184) or goes on to take the mutex
ThreadCall(t, swapchains, counts, indices) ==
    /\ ~crashed
    /\ pc[t] = "idle"
    /\ \E op \in {"xrEnumerateSwapchainImages", "xrAcquireSwapchainImage",
                   "xrWaitSwapchainImage", "xrReleaseSwapchainImage"},
          s \in swapchains, result \in XrResults, count \in counts \cup {NoValue},
          index \in indices \cup {NoValue} :
         LET tracked ==
                 CASE op = "xrEnumerateSwapchainImages" ->
                        XR_SUCCEEDED(result) /\ count # NoValue
                   [] op = "xrWaitSwapchainImage" -> result = "XR_SUCCESS"
                   [] OTHER -> XR_SUCCEEDED(result)
         IN  /\ created[s]
             /\ (op = "xrEnumerateSwapchainImages" /\ XR_SUCCEEDED(result)) \/ count = NoValue
             /\ (op = "xrAcquireSwapchainImage" /\ tracked) = (index # NoValue)
             /\ (op = "xrAcquireSwapchainImage" /\ tracked)
                => Len(acquiredSwapchains[s]) + Cardinality(AcquiresInFlight(s)) < MaxAcquired
             /\ (op = "xrAcquireSwapchainImage" /\ tracked /\ history[s].on)
                => Len(history[s].performed) < MaxHistory
             /\ pc' = [pc EXCEPT ![t] = IF tracked THEN "lock" ELSE "idle"]
             /\ frame' = [frame EXCEPT ![t] =
                             IF tracked
                             THEN [NoFrame EXCEPT !.op = op, !.swapchain = s,
                                                  !.index = index,
                                                  !.count = count,
                                                  !.lookupUnder = LookupUnder(t)]
                             ELSE NoFrame]
             /\ history' = [history EXCEPT ![s] = Perform(@, op, result, index)]
    /\ UNCHANGED <<imageStates, acquiredSwapchains, crashed, mutex>>
    /\ ThreadVarsUnchanged

\* std::unique_lock<std::recursive_mutex> lock(...) at lines 88, 122, 161, 186:
\* blocks until the mutex can be taken
ThreadLock(t) ==
    /\ ~crashed
    /\ pc[t] \in {"lock", "nested lock"}
    /\ CanLock(mutex[frame[t].swapchain], t)
    /\ mutex' = [mutex EXCEPT ![frame[t].swapchain] = LockBy(@, t)]
    /\ pc' = [pc EXCEPT ![t] =
                 IF pc[t] = "nested lock" THEN "nested check"
                 ELSE IF frame[t].op = "xrAcquireSwapchainImage" THEN "empty"
                 ELSE "check"]
    /\ UNCHANGED <<imageStates, acquiredSwapchains, crashed, frame, history>>
    /\ ThreadVarsUnchanged

\* Acquire, line 124: if (swapchainData->imageStates.empty())
ThreadEmpty(t) ==
    /\ ~crashed
    /\ pc[t] = "empty"
    /\ pc' = [pc EXCEPT ![t] =
                 IF imageStates[frame[t].swapchain] = <<>> THEN "enumerate" ELSE "check"]
    /\ UNCHANGED <<imageStates, acquiredSwapchains, crashed, frame, mutex, history>>
    /\ ThreadVarsUnchanged

\* Acquire, line 128: the runtime call of the nested xrEnumerateSwapchainImages
ThreadEnumerate(t, counts) ==
    /\ ~crashed
    /\ pc[t] = "enumerate"
    /\ \E enumRes \in XrResults, count \in counts \cup {NoValue} :
         /\ XR_SUCCEEDED(enumRes) = (count # NoValue)
         /\ frame' = [frame EXCEPT
                         ![t].count = count,
                         ![t].lookupUnder =
                             IF XR_SUCCEEDED(enumRes) THEN @ \cup LookupUnder(t) ELSE @]
         /\ pc' = [pc EXCEPT ![t] = IF XR_SUCCEEDED(enumRes) THEN "nested lock" ELSE "check"]
    /\ UNCHANGED <<imageStates, acquiredSwapchains, crashed, mutex, history>>
    /\ ThreadVarsUnchanged

\* the reads a hook validates: imageStates and the acquired queue (lines 90-95,
\* 135-139, 163-166, 188-191)
ThreadCheck(t) ==
    /\ ~crashed
    /\ pc[t] \in {"check", "nested check"}
    /\ frame' = [frame EXCEPT ![t].seenStates = imageStates[frame[t].swapchain],
                              ![t].seenQueue = acquiredSwapchains[frame[t].swapchain]]
    /\ pc' = [pc EXCEPT ![t] = IF pc[t] = "check" THEN "mutate" ELSE "nested mutate"]
    /\ UNCHANGED <<imageStates, acquiredSwapchains, crashed, mutex, history>>
    /\ ThreadVarsUnchanged

\* the writes of a hook: resize (line 97), state assignment and push or pop
\* (lines 141-142, 168, 193-194)
ThreadMutate(t) ==
    /\ ~crashed
    /\ pc[t] \in {"mutate", "nested mutate"}
    /\ LET s == frame[t].swapchain
           op == IF pc[t] = "nested mutate" THEN "xrEnumerateSwapchainImages"
                                            ELSE frame[t].op
           states == imageStates[s]
           queue == acquiredSwapchains[s]
           index == IF op = "xrAcquireSwapchainImage" THEN frame[t].index
                    ELSE IF queue # <<>> THEN Head(queue) ELSE NoValue
           indexed == op = "xrAcquireSwapchainImage"
                      \/ (op \in {"xrWaitSwapchainImage", "xrReleaseSwapchainImage"}
                          /\ queue # <<>>)
       IN  \E access \in IF indexed /\ ~InBounds(states, index)
                          THEN OutOfBoundsAccess ELSE {"in bounds"} :
             /\ crashed' = (access = "crash")
             /\ pc' = [pc EXCEPT ![t] = IF access = "crash" THEN @
                                        ELSE IF @ = "mutate" THEN "unlock"
                                        ELSE "nested unlock"]
             /\ imageStates' =
                   [imageStates EXCEPT ![s] =
                      CASE op = "xrEnumerateSwapchainImages" ->
                             EnumerateImageStates(states, frame[t].count)
                        [] ~indexed \/ access # "in bounds" -> states
                        [] op = "xrAcquireSwapchainImage" -> AcquireImageStates(states, index)
                        [] op = "xrWaitSwapchainImage" -> WaitImageStates(states, index)
                        [] OTHER -> ReleaseImageStates(states, index)]
             /\ acquiredSwapchains' =
                   [acquiredSwapchains EXCEPT ![s] =
                      CASE ~indexed \/ access = "crash" -> queue
                        [] op = "xrAcquireSwapchainImage" -> AcquirePush(queue, index)
                        [] op = "xrReleaseSwapchainImage" -> ReleasePop(queue)
                        [] OTHER -> queue]
             /\ history' =
                   [history EXCEPT ![s] =
                      IF @.on /\ op = "xrAcquireSwapchainImage" /\ access # "crash"
                      THEN [@ EXCEPT !.pushed = Append(@, index)]
                      ELSE @]
    /\ UNCHANGED <<frame, mutex>>
    /\ ThreadVarsUnchanged

\* the end of the locked scope (lines 111, 143, 169-172, 195-198): the hook
\* returns, or the nested Enumerate returns into Acquire (line 129)
ThreadUnlock(t) ==
    /\ ~crashed
    /\ pc[t] \in {"unlock", "nested unlock"}
    /\ mutex' = [mutex EXCEPT ![frame[t].swapchain] = UnlockBy(@, t)]
    /\ pc' = [pc EXCEPT ![t] = IF pc[t] = "unlock" THEN "idle" ELSE "check"]
    /\ frame' = [frame EXCEPT ![t] = IF pc[t] = "unlock" THEN NoFrame ELSE @]
    /\ UNCHANGED <<imageStates, acquiredSwapchains, crashed, history>>
    /\ ThreadVarsUnchanged

\* a step of thread t inside a hook
ThreadStep(t, counts) ==
    \/ ThreadLock(t)
    \/ ThreadEmpty(t)
    \/ ThreadEnumerate(t, counts)
    \/ ThreadCheck(t)
    \/ ThreadMutate(t)
    \/ ThreadUnlock(t)

\* two swapchains of one image each, used by all threads
ThreadNext ==
    \E t \in Threads :
        ThreadCall(t, Swapchains, SingleCount, FirstIndex) \/ ThreadStep(t, SingleCount)

\* the state after two successful xrCreateSwapchain calls in one session
TwoSwapchains ==
    /\ created = [s \in Swapchains |-> TRUE]
    /\ isStatic = [s \in Swapchains |-> FALSE]
    /\ createInfo = [s \in Swapchains |-> CHOOSE info \in OneCreateInfo : TRUE]
    /\ graphicsBinding = [s \in Swapchains |-> SessionBinding("session1")]
    /\ imageStates = [s \in Swapchains |-> <<>>]
    /\ acquiredSwapchains = [s \in Swapchains |-> <<>>]
    /\ crashed = FALSE
    /\ last = [Call("xrCreateSwapchain", "swapchain2", "XR_SUCCESS") EXCEPT
                  !.info = CHOOSE info \in OneCreateInfo : TRUE,
                  !.session = "session1"]
    /\ enumerated = [s \in Swapchains |-> FALSE]
    /\ conformant = [s \in Swapchains |-> TRUE]
    /\ scenario = [s \in Swapchains |-> 1]
    /\ history = [s \in Swapchains |-> NoHistory(FALSE)]
    /\ pc = [t \in Threads |-> "idle"]
    /\ frame = [t \in Threads |-> NoFrame]
    /\ mutex = [s \in Swapchains |-> Unlocked]
    /\ registry = EmptyRegistry
    /\ builder = NoBuilder

ThreadSpec == TwoSwapchains /\ [][ThreadNext]_vars

(* Two swapchains in use at once: the first has two images and sees every
   hook, the image of the second is waited for and released *)

\* the state after two successful xrCreateSwapchain calls and an Acquire of
\* image 0 of the second swapchain, whose implicit enumeration reported 1 image
SecondInUse ==
    /\ created = [s \in Swapchains |-> TRUE]
    /\ isStatic = [s \in Swapchains |-> FALSE]
    /\ createInfo = [s \in Swapchains |-> CHOOSE info \in OneCreateInfo : TRUE]
    /\ graphicsBinding = [s \in Swapchains |-> SessionBinding("session1")]
    /\ imageStates = [s \in Swapchains |->
                         IF s \in OneSwapchain THEN <<>> ELSE <<"Acquired">>]
    /\ acquiredSwapchains = [s \in Swapchains |->
                                IF s \in OneSwapchain THEN <<>> ELSE <<0>>]
    /\ crashed = FALSE
    /\ last = [Call("xrAcquireSwapchainImage", "swapchain2", "XR_SUCCESS") EXCEPT
                  !.index = 0, !.probe = TRUE, !.probeResult = "XR_SUCCESS",
                  !.capacity = 0, !.count = 1, !.before = "Created",
                  !.mutated = TRUE]
    /\ enumerated = [s \in Swapchains |-> s \notin OneSwapchain]
    /\ conformant = [s \in Swapchains |-> TRUE]
    /\ scenario = [s \in Swapchains |-> IF s \in OneSwapchain THEN 1 ELSE 0]
    /\ history = [s \in Swapchains |-> NoHistory(FALSE)]
    /\ pc = [t \in Threads |-> "idle"]
    /\ frame = [t \in Threads |-> NoFrame]
    /\ mutex = [s \in Swapchains |-> Unlocked]
    /\ registry = EmptyRegistry
    /\ builder = NoBuilder

\* the state after one successful xrCreateSwapchain, with the history kept
OneSwapchainCreated ==
    /\ created = [s \in Swapchains |-> s \in OneSwapchain]
    /\ isStatic = [s \in Swapchains |-> FALSE]
    /\ createInfo = [s \in Swapchains |->
                        IF s \in OneSwapchain THEN CHOOSE info \in OneCreateInfo : TRUE
                                               ELSE NoInfo]
    /\ graphicsBinding = [s \in Swapchains |->
                             IF s \in OneSwapchain THEN SessionBinding("session1")
                                                    ELSE "none"]
    /\ imageStates = [s \in Swapchains |-> <<>>]
    /\ acquiredSwapchains = [s \in Swapchains |-> <<>>]
    /\ crashed = FALSE
    /\ last = [Call("xrCreateSwapchain", "swapchain1", "XR_SUCCESS") EXCEPT
                  !.info = CHOOSE info \in OneCreateInfo : TRUE,
                  !.session = "session1"]
    /\ enumerated = [s \in Swapchains |-> FALSE]
    /\ conformant = [s \in Swapchains |-> TRUE]
    /\ scenario = [s \in Swapchains |-> IF s \in OneSwapchain THEN 1 ELSE 0]
    /\ history = [s \in Swapchains |-> NoHistory(TRUE)]
    /\ pc = [t \in Threads |-> "idle"]
    /\ frame = [t \in Threads |-> NoFrame]
    /\ mutex = [s \in Swapchains |-> Unlocked]
    /\ registry = EmptyRegistry
    /\ builder = NoBuilder

\* the indices of a swapchain of two images
BothIndices == {0, 1}

\* the threads use one swapchain of two images
OrderNext ==
    \E t \in Threads :
        ThreadCall(t, OneSwapchain, DoubleCount, BothIndices) \/ ThreadStep(t, DoubleCount)

OrderSpec == OneSwapchainCreated /\ [][OrderNext]_vars

FrameNext ==
    \/ \E s \in OneSwapchain :
          \/ xrEnumerateSwapchainImages(s, DoubleCount)
          \/ xrAcquireSwapchainImage(s, DoubleCount)
          \/ xrWaitSwapchainImage(s)
          \/ xrReleaseSwapchainImage(s)
    \/ \E s \in Swapchains \ OneSwapchain :
          \/ xrWaitSwapchainImage(s)
          \/ xrReleaseSwapchainImage(s)

FrameSpec == SecondInUse /\ [][FrameNext]_vars

----------------------------------------------------------------------------
(* Properties *)

Acquire == "xrAcquireSwapchainImage"
Wait == "xrWaitSwapchainImage"
Release == "xrReleaseSwapchainImage"
Enumerate == "xrEnumerateSwapchainImages"

\* the last call was hook op on swapchain s, and its runtime call succeeded
Succeeded(op, s) ==
    last.op = op /\ last.swapchain = s /\ XR_SUCCEEDED(last.result)

\* the last call was a successful Acquire on s of an image imageStates holds,
\* and the hook returned
AcquiredTracked(s) ==
    /\ Succeeded(Acquire, s)
    /\ last.returned # NoReturn
    /\ InBounds(imageStates[s], last.index)

\* the state the Acquire precondition rules out
ViolatesAcquire(imageState, static) ==
    imageState \in {"Acquired", "Waited"} \/ (imageState = "Released" /\ static)

\* the edges of Created -> Acquired -> Waited -> Released -> Acquired -> ...
SequenceEdges ==
    {<<"Created", "Acquired">>, <<"Acquired", "Waited">>, <<"Waited", "Released">>,
     <<"Released", "Acquired">>}

\* C1: every hook call hands back exactly the result code of its runtime call,
\* whatever the result, the tracked state and the diagnostics raised
C1_ResultPassedThrough ==
    last.op # "none" => last.returned = last.result

\* C2: on a non-static swapchain, an Acquire, Wait or Release event that changes
\* the state of a tracked image along an edge of Created -> Acquired -> Waited ->
\* Released -> Acquired raises no diagnostic, and one that changes it along any
\* other edge raises one
C2_SequenceOrDiagnostic ==
    [][\A s \in Swapchains :
         (created[s] /\ ~isStatic[s] /\ last'.swapchain = s
            /\ last'.op \in {Acquire, Wait, Release})
         => \A i \in 1..Len(imageStates'[s]) :
              LET old == IF imageStates[s] = <<>> THEN "Created" ELSE imageStates[s][i]
                  new == imageStates'[s][i]
              IN  old # new => ((<<old, new>> \in SequenceEdges) <=> last'.diags = {})]_vars

\* C2 witness: a non-static image was re-acquired from Released without a diagnostic
C2_Witness ==
    \E s \in Swapchains :
        /\ AcquiredTracked(s) /\ ~isStatic[s]
        /\ last.before = "Released" /\ last.diags = {} /\ last.conformantBefore
        /\ At(imageStates[s], last.index) = "Acquired"

StaticReacquire(s) ==
    /\ AcquiredTracked(s) /\ isStatic[s]
    /\ Len(imageStates[s]) = 1 /\ last.index = 0
    /\ last.before = "Released"

EnumerateReports(s) ==
    last'.op = Enumerate /\ last'.swapchain = s /\ last'.count # NoValue

\* C5 as stated: imageStates.size() is 0 until the first successful enumeration
\* and never changes from that enumeration on
C5_SizeFixedAfterFirstEnumeration ==
    /\ [](\A s \in Swapchains : ~enumerated[s] => imageStates[s] = <<>>)
    /\ [][\A s \in Swapchains :
             enumerated[s] => Len(imageStates'[s]) = Len(imageStates[s])]_vars

\* C5 amended: imageStates.size() is 0 until the first successful enumeration,
\* and once it is not 0 (an enumeration has reported a non-zero count) it never
\* changes, whatever later enumerations report and whatever else happens
C5_SizeFixedOncePopulated ==
    /\ [](\A s \in Swapchains : ~enumerated[s] => imageStates[s] = <<>>)
    /\ [][\A s \in Swapchains :
             imageStates[s] # <<>> => Len(imageStates'[s]) = Len(imageStates[s])]_vars

\* C5 witness: a populated swapchain has just been enumerated with another count
C5_Witness ==
    \E s \in Swapchains :
        /\ Succeeded(Enumerate, s) /\ last.count # NoValue
        /\ imageStates[s] # <<>> /\ last.count # Len(imageStates[s])

\* C6 as stated, for two successful Enumerate calls in a row: when they report
\* different counts the later one raises the count diagnostic and does not
\* mutate imageStates
C6_DifferentCountsDetected ==
    [][\A s \in Swapchains :
         (/\ last.op = Enumerate /\ last.swapchain = s /\ last.count # NoValue
          /\ EnumerateReports(s) /\ last'.count # last.count)
         => CountDiffers \in last'.diags /\ imageStates'[s] = imageStates[s]]_vars

\* C6 amended: a successful Enumerate that reports a count different from the
\* size imageStates already has raises the count diagnostic and does not mutate
\* imageStates, and only such a call raises it
C6_CountMismatchDetected ==
    [][\A s \in Swapchains :
         EnumerateReports(s)
         => /\ (imageStates[s] # <<>> /\ last'.count # Len(imageStates[s]))
               => CountDiffers \in last'.diags /\ imageStates'[s] = imageStates[s]
            /\ CountDiffers \in last'.diags
               => imageStates[s] # <<>> /\ last'.count # Len(imageStates[s])]_vars

\* C6 witness: an enumeration reported fewer images than recorded
C6_Witness ==
    \E s \in Swapchains :
        /\ Succeeded(Enumerate, s) /\ last.count # NoValue
        /\ last.count < Len(imageStates[s]) /\ CountDiffers \in last.diags

\* C7: on a fresh swapchain, after a probe reporting 3 images, Acquire of index
\* 0, Wait and Release take image 0 through Acquired, Waited, Released without a
\* diagnostic and leave images 1 and 2 Created and the queue empty; a second
\* Release then raises 'Release succeeded with no acquired image.' and changes
\* no image state
C7_Scenario ==
    \A s \in Swapchains :
        /\ scenario[s] = 2
           => imageStates[s] = <<"Created", "Created", "Created">>
              /\ acquiredSwapchains[s] = <<>>
        /\ scenario[s] = 3
           => imageStates[s] = <<"Acquired", "Created", "Created">>
              /\ acquiredSwapchains[s] = <<0>> /\ last.diags = {}
        /\ scenario[s] = 4
           => imageStates[s] = <<"Waited", "Created", "Created">>
              /\ acquiredSwapchains[s] = <<0>> /\ last.diags = {}
        /\ scenario[s] = 5
           => imageStates[s] = <<"Released", "Created", "Created">>
              /\ acquiredSwapchains[s] = <<>> /\ last.diags = {}
        /\ scenario[s] = 6
           => imageStates[s] = <<"Released", "Created", "Created">>
              /\ acquiredSwapchains[s] = <<>> /\ last.diags = {ReleaseNoImage}
        /\ scenario[s] >= 2 => last.returned = last.result

\* C7 witness: the scenario has run to its second Release
C7_Witness ==
    \E s \in Swapchains : scenario[s] = 6 /\ last.op = Release

\* the call of this step is hook op on s and its runtime call returned result
Runs(op, s, results) ==
    last'.op = op /\ last'.swapchain = s /\ last'.result \in results

\* C8: a successful Release with a non-empty queue sets the image at the queue
\* front to Released and pops that one entry, with a diagnostic exactly when the
\* image was not Waited; with an empty queue it raises a diagnostic and mutates
\* neither the image states nor the queue
C8_ReleaseFront ==
    [][\A s \in Swapchains :
         Runs(Release, s, {"XR_SUCCESS", "XR_TIMEOUT_EXPIRED"})
         => IF acquiredSwapchains[s] # <<>>
            THEN LET front == Head(acquiredSwapchains[s])
                 IN  /\ InBounds(imageStates[s], front)
                     /\ imageStates'[s] = [imageStates[s] EXCEPT ![front + 1] = "Released"]
                     /\ acquiredSwapchains'[s] = Tail(acquiredSwapchains[s])
                     /\ last'.diags # {} <=> At(imageStates[s], front) # "Waited"
            ELSE /\ last'.diags # {}
                 /\ imageStates'[s] = imageStates[s]
                 /\ acquiredSwapchains'[s] = acquiredSwapchains[s]]_vars

\* C8 where the queue front is an index imageStates holds: the Release does as
\* C8 says
C8_ReleaseFrontInBounds ==
    [][\A s \in Swapchains :
         (/\ Runs(Release, s, {"XR_SUCCESS", "XR_TIMEOUT_EXPIRED"})
          /\ acquiredSwapchains[s] # <<>>
          /\ InBounds(imageStates[s], Head(acquiredSwapchains[s])))
         => LET front == Head(acquiredSwapchains[s])
            IN  /\ imageStates'[s] = [imageStates[s] EXCEPT ![front + 1] = "Released"]
                /\ acquiredSwapchains'[s] = Tail(acquiredSwapchains[s])
                /\ last'.diags # {} <=> At(imageStates[s], front) # "Waited"]_vars

\* C9: a Wait returning XR_SUCCESS with a non-empty queue sets the image at the
\* queue front to Waited and leaves the queue untouched, with a diagnostic
\* exactly when the image was not Acquired; with an empty queue it raises a
\* diagnostic and mutates nothing
C9_WaitFront ==
    [][\A s \in Swapchains :
         Runs(Wait, s, {"XR_SUCCESS"})
         => /\ acquiredSwapchains'[s] = acquiredSwapchains[s]
            /\ IF acquiredSwapchains[s] # <<>>
               THEN LET front == Head(acquiredSwapchains[s])
                    IN  /\ InBounds(imageStates[s], front)
                        /\ imageStates'[s] = [imageStates[s] EXCEPT ![front + 1] = "Waited"]
                        /\ last'.diags # {} <=> At(imageStates[s], front) # "Acquired"
               ELSE last'.diags # {} /\ imageStates'[s] = imageStates[s]]_vars

\* C9 where the queue front is an index imageStates holds: the Wait does as C9
\* says
C9_WaitFrontInBounds ==
    [][\A s \in Swapchains :
         (/\ Runs(Wait, s, {"XR_SUCCESS"})
          /\ acquiredSwapchains[s] # <<>>
          /\ InBounds(imageStates[s], Head(acquiredSwapchains[s])))
         => LET front == Head(acquiredSwapchains[s])
            IN  /\ acquiredSwapchains'[s] = acquiredSwapchains[s]
                /\ imageStates'[s] = [imageStates[s] EXCEPT ![front + 1] = "Waited"]
                /\ last'.diags # {} <=> At(imageStates[s], front) # "Acquired"]_vars

\* C10: a successful Acquire that finds imageStates empty enumerates with
\* capacity 0 and no image array; when that probe succeeds and the acquired
\* index is below the reported count, imageStates holds that many images, all
\* Created but the acquired one, the index is the newest queue entry, and the
\* only diagnostic possible is the one an explicit Enumerate reporting that
\* count raises on a static swapchain
C10_ImplicitEnumeration ==
    \A s \in Swapchains :
        (Succeeded(Acquire, s) /\ last.probe)
        => /\ last.capacity = 0 /\ ~last.images
           /\ (XR_SUCCEEDED(last.probeResult) /\ last.index < last.count)
              => /\ last.returned = last.result
                 /\ imageStates[s] = [i \in 1..last.count |->
                                        IF i = last.index + 1 THEN "Acquired" ELSE "Created"]
                 /\ acquiredSwapchains[s] # <<>>
                 /\ acquiredSwapchains[s][Len(acquiredSwapchains[s])] = last.index
                 /\ last.diags = IF isStatic[s] /\ last.count # 1 THEN {StaticCount} ELSE {}

\* C10 witness: an Acquire on a never-enumerated swapchain was applied after
\* its probe, without a diagnostic
C10_Witness ==
    \E s \in Swapchains :
        /\ Succeeded(Acquire, s) /\ last.probe /\ XR_SUCCEEDED(last.probeResult)
        /\ last.count > 1 /\ last.index = 1 /\ last.diags = {}
        /\ At(imageStates[s], last.index) = "Acquired"

\* C11 as stated, for two successful Enumerate calls in a row with no image
\* array that report the same count: the second mutates nothing and raises no
\* diagnostic
C11_RepeatedEnumerateSilent ==
    [][\A s \in Swapchains :
         (EnumerateReports(s) /\ last'.repeated)
         => /\ imageStates'[s] = imageStates[s]
            /\ acquiredSwapchains'[s] = acquiredSwapchains[s]
            /\ last'.diags = {}]_vars

\* C11 amended: the repeated call mutates nothing and raises exactly the
\* diagnostics the call before it raised, none if that one raised none
C11_RepeatedEnumerateSame ==
    [][\A s \in Swapchains :
         (EnumerateReports(s) /\ last'.repeated)
         => /\ imageStates'[s] = imageStates[s]
            /\ acquiredSwapchains'[s] = acquiredSwapchains[s]
            /\ last'.diags = last.diags]_vars

\* C11 witness: an enumeration repeated on a swapchain with an image in use
C11_Witness ==
    \E s \in Swapchains :
        /\ Succeeded(Enumerate, s) /\ last.repeated /\ last.diags = {}
        /\ acquiredSwapchains[s] # <<>> /\ Len(imageStates[s]) = last.count

\* C12: a Wait returning XR_TIMEOUT_EXPIRED mutates neither the image states
\* nor the queue, and raises a diagnostic exactly when the measured duration is
\* strictly less than the requested timeout
C12_WaitTimeout ==
    \A s \in Swapchains :
        (last.op = Wait /\ last.swapchain = s /\ last.result = "XR_TIMEOUT_EXPIRED")
        => /\ ~last.mutated
           /\ last.returned = last.result
           /\ last.diags = IF last.elapsed < last.timeout THEN {WaitEarly} ELSE {}

\* C12 witness: a wait timed out exactly at the requested timeout, with an
\* acquired image in the queue
C12_Witness ==
    \E s \in Swapchains :
        /\ last.op = Wait /\ last.swapchain = s /\ last.result = "XR_TIMEOUT_EXPIRED"
        /\ last.timeout > 0 /\ last.elapsed = last.timeout /\ last.diags = {}
        /\ acquiredSwapchains[s] # <<>>
        /\ InBounds(imageStates[s], Head(acquiredSwapchains[s]))
        /\ At(imageStates[s], Head(acquiredSwapchains[s])) = "Acquired"

\* some image of s goes from Released to Acquired in this step
ReleasedAcquiredAgain(s) ==
    \E i \in 1..Len(imageStates[s]) :
        /\ i <= Len(imageStates'[s])
        /\ imageStates[s][i] = "Released" /\ imageStates'[s][i] = "Acquired"

C14_FirstEnumerateAllocates ==
    \A s \in Swapchains :
        (Succeeded(Enumerate, s) /\ last.count # NoValue /\ last.sizeBefore = 0)
        => /\ imageStates[s] = [i \in 1..last.count |-> "Created"]
           /\ last.count = 0 <=> EmptyCount \in last.diags
           /\ CountDiffers \notin last.diags

\* C14 witness: the first enumeration reported two images
C14_Witness ==
    \E s \in Swapchains :
        /\ Succeeded(Enumerate, s) /\ last.count = 2 /\ last.sizeBefore = 0
        /\ last.mutated /\ last.diags = {}

\* C18: a hook whose runtime call returned an error (for Wait: anything but
\* XR_SUCCESS) leaves the image states and the queue of the swapchain as they
\* were and raises no diagnostic, but for the early-return check of a Wait that
\* timed out
C18_FailedCallLeavesState ==
    \A s \in Swapchains :
        (/\ last.swapchain = s
         /\ \/ last.op \in {Enumerate, Acquire, Release}
               /\ last.result = "XR_ERROR_RUNTIME_FAILURE"
            \/ last.op = Wait /\ last.result # "XR_SUCCESS")
        => /\ ~last.mutated
           /\ Len(imageStates[s]) = last.sizeBefore
           /\ last.returned = last.result
           /\ ~last.probe /\ last.validated = <<>>
           /\ last.diags \subseteq
                 (IF last.op = Wait /\ last.result = "XR_TIMEOUT_EXPIRED"
                  THEN {WaitEarly} ELSE {})

\* C18 witness: a Release failed with a waited image at the queue front
C18_Witness ==
    \E s \in Swapchains :
        /\ last.swapchain = s /\ last.result = "XR_ERROR_RUNTIME_FAILURE"
        /\ last.op = Release /\ acquiredSwapchains[s] # <<>>
        /\ InBounds(imageStates[s], Head(acquiredSwapchains[s]))
        /\ At(imageStates[s], Head(acquiredSwapchains[s])) = "Waited"

\* C15: the queue holds the pushed indices that have not been released, in the
\* order of their Acquire calls; the k-th Release that finds the queue non-empty
\* uses the index the k-th Acquire pushed and sets that image to Released, and a
\* Wait uses the oldest index not yet released
C15_FifoOrder ==
    \A s \in Swapchains :
        history[s].on
        => LET pushed == history[s].pushed
               released == history[s].released
           IN  /\ Len(released) <= Len(pushed)
               /\ \A k \in 1..Len(released) : released[k] = pushed[k]
               /\ acquiredSwapchains[s] = SubSeq(pushed, Len(released) + 1, Len(pushed))
               /\ (/\ last.swapchain = s /\ last.op = Release /\ last.index # NoValue
                   /\ last.returned # NoReturn)
                  => /\ last.index = pushed[Len(released)]
                     /\ InBounds(imageStates[s], last.index)
                        => At(imageStates[s], last.index) = "Released"
               /\ (/\ last.swapchain = s /\ last.op = Wait /\ last.index # NoValue
                   /\ last.returned # NoReturn)
                  => /\ last.index = pushed[Len(released) + 1]
                     /\ InBounds(imageStates[s], last.index)
                        => At(imageStates[s], last.index) = "Waited"

\* C15 witness: images 1 and 0 were acquired in this order and both in use when
\* a Release came, which released image 1
C15_Witness ==
    \E s \in Swapchains :
        /\ history[s].on
        /\ history[s].pushed = <<1, 0>> /\ history[s].released = <<1>>
        /\ last.op = Release /\ last.index = 1 /\ last.diags = {}
        /\ imageStates[s] = <<"Acquired", "Released">>

\* the diagnostics of an enumeration that reports count on a swapchain left with
\* size image states
CountDiagnostics(count, static, size) ==
    (IF count = 0 THEN {EmptyCount} ELSE {})
    \cup (IF static /\ count # 1 THEN {StaticCount} ELSE {})
    \cup (IF size # count THEN {CountDiffers} ELSE {})

\* C19: an Enumerate calls the validator only when it succeeded with a count
\* and an image array and the swapchain's graphics binding has a validator, and
\* then ValidateSwapchainImageStructs with the format of the creation and the
\* reported count, followed by ValidateUsageFlags with the usage flags of the
\* creation and the reported count; the image states it leaves and the
\* diagnostics it raises do not depend on there being a validator
C19_ValidatorDispatch ==
    \A s \in Swapchains :
        (last.op = Enumerate /\ last.swapchain = s)
        => LET reported == last.result \in {"XR_SUCCESS", "XR_TIMEOUT_EXPIRED"}
                              /\ last.count # NoValue
           IN  /\ last.validated =
                    IF /\ reported /\ last.images
                       /\ graphicsBinding[s] = "binding with validator"
                    THEN <<[call |-> "ValidateSwapchainImageStructs",
                            with |-> createInfo[s].format, count |-> last.count],
                           [call |-> "ValidateUsageFlags",
                            with |-> createInfo[s].usageFlags, count |-> last.count]>>
                    ELSE <<>>
               /\ reported
                  => /\ imageStates[s] = IF last.sizeBefore = 0
                                         THEN [i \in 1..last.count |-> "Created"]
                                         ELSE imageStates[s]
                     /\ last.mutated = (last.sizeBefore = 0 /\ last.count > 0)
                     /\ last.diags = CountDiagnostics(last.count, isStatic[s],
                                                      Len(imageStates[s]))

\* C19 witness: the images of a depth swapchain were enumerated for the first
\* time in a session whose graphics binding has no validator
C19_Witness ==
    \E s \in Swapchains :
        /\ Succeeded(Enumerate, s) /\ last.images /\ last.count = 1
        /\ graphicsBinding[s] = "binding without validator"
        /\ createInfo[s].format = "D32_FLOAT"
        /\ last.validated = <<>> /\ last.diags = {}
        /\ last.sizeBefore = 0 /\ imageStates[s] = <<"Created">>

\* the tracked swapchain state attached to handle s
Attached(s) ==
    <<created[s], isStatic[s], createInfo[s], graphicsBinding[s], imageStates[s],
      acquiredSwapchains[s]>>

\* C20: swapchain state is attached to a handle exactly by an xrCreateSwapchain
\* that succeeds, with the creation parameters, the graphics binding of the
\* session and empty imageStates and queue; a failed creation attaches nothing,
\* and no creation changes the state of another swapchain
C20_CreateAttachesState ==
    [][\A s \in Swapchains :
         /\ (last'.op = "xrCreateSwapchain" /\ last'.swapchain = s)
            => /\ \A o \in Swapchains \ {s} : Attached(o)' = Attached(o)
               /\ last'.returned = last'.result
               /\ IF last'.result \in {"XR_SUCCESS", "XR_TIMEOUT_EXPIRED"}
                  THEN /\ ~created[s] /\ created'[s]
                       /\ createInfo'[s] = last'.info
                       /\ graphicsBinding'[s] =
                             (IF last'.session = "session1" THEN "binding with validator"
                                                            ELSE "binding without validator")
                       /\ imageStates'[s] = <<>>
                       /\ acquiredSwapchains'[s] = <<>>
                  ELSE Attached(s)' = Attached(s)
         /\ created'[s] # created[s]
            => /\ last'.op = "xrCreateSwapchain" /\ last'.swapchain = s
               /\ last'.result \in {"XR_SUCCESS", "XR_TIMEOUT_EXPIRED"}]_vars

\* C20 witness: the creation of a second swapchain failed while the first had
\* an image in use
C20_Witness ==
    /\ last.op = "xrCreateSwapchain" /\ last.swapchain = "swapchain2"
    /\ last.result = "XR_ERROR_RUNTIME_FAILURE" /\ ~created["swapchain2"]
    /\ created["swapchain1"] /\ imageStates["swapchain1"] = <<"Waited">>
    /\ acquiredSwapchains["swapchain1"] = <<0>>

\* thread t is between the reads its hook validates and the writes that follow
BeforeWrite(t) == pc[t] \in {"mutate", "nested mutate"}

\* C16: a thread inside the locked scope of a hook holds the mutex of the
\* swapchain, no two threads are inside the locked scope of hooks on the same
\* swapchain, and when a hook gets to its writes the image states and the queue
\* are still the ones its checks read
C16_EventIsOneCriticalSection ==
    \A t \in Threads :
        pc[t] \in Critical
        => /\ mutex[frame[t].swapchain].owner = t
           /\ mutex[frame[t].swapchain].count >= 1
           /\ \A u \in Threads \ {t} :
                 pc[u] \in Critical => frame[u].swapchain # frame[t].swapchain
           /\ BeforeWrite(t)
              => /\ imageStates[frame[t].swapchain] = frame[t].seenStates
                 /\ acquiredSwapchains[frame[t].swapchain] = frame[t].seenQueue

\* C16 witness: one thread is about to write the Released state it validated
\* while the other waits for the mutex of the same swapchain with an Acquire
C16_Witness ==
    \E t, u \in Threads :
        /\ t # u /\ frame[t].swapchain = frame[u].swapchain
        /\ pc[t] = "mutate" /\ frame[t].op = Release /\ frame[t].seenQueue # <<>>
        /\ pc[u] = "lock" /\ frame[u].op = Acquire

\* thread t can take a step: it is not waiting in a lock statement for a mutex
\* another thread holds
Runnable(t) ==
    /\ ~crashed
    /\ pc[t] \in {"lock", "nested lock"} => CanLock(mutex[frame[t].swapchain], t)

\* C17: a thread inside a hook can take its next step, or waits for a mutex
\* whose holder can; in particular the nested Enumerate of an Acquire gets the
\* mutex its thread already holds; and a thread outside the hooks holds no mutex
C17_EveryCallProceeds ==
    \A t \in Threads :
        /\ pc[t] # "idle"
           => \/ Runnable(t)
              \/ /\ ~crashed
                 /\ \E u \in Threads \ {t} :
                       /\ mutex[frame[t].swapchain].owner = u
                       /\ pc[u] # "idle" /\ Runnable(u)
        /\ pc[t] = "idle" => \A s \in Swapchains : mutex[s].owner # t

\* C17 as long as no out-of-bounds access has killed the process
C17_ProceedsUnlessCrashed ==
    crashed \/ C17_EveryCallProceeds

\* a thread is locking the mutex it already holds, for the nested Enumerate
C17_NestedLockReached ==
    \E t \in Threads :
        /\ pc[t] = "nested check" /\ mutex[frame[t].swapchain] = [owner |-> t, count |-> 2]
        /\ \E u \in Threads \ {t} : pc[u] = "lock" /\ frame[u].swapchain = frame[t].swapchain

\* threads are scheduled, and a thread waiting for a mutex gets it in the end
ThreadFairSpec ==
    ThreadSpec /\ \A t \in Threads :
                      WF_vars(ThreadStep(t, SingleCount)) /\ SF_vars(ThreadLock(t))

\* C17, the calls return: a thread inside a hook gets out of it with the mutex
\* released, unless the process dies in an out-of-bounds access
C17_ReturnsUnlessCrashed ==
    \A t \in Threads : (pc[t] # "idle") ~> (pc[t] = "idle" \/ crashed)

\* C17 as stated: every call returns
C17_EveryCallReturns ==
    \A t \in Threads : (pc[t] # "idle") ~> (pc[t] = "idle")

\* the elements of a queue
Members(queue) == {queue[k] : k \in 1..Len(queue)}

\* the images of s tracked as Acquired or Waited
InUse(s) ==
    {i \in 0..(Len(imageStates[s]) - 1) : At(imageStates[s], i) \in {"Acquired", "Waited"}}

\* C22: every index with which Acquire, Wait or Release reads or writes
\* imageStates is smaller than imageStates.size(), also when the runtime returns
\* an out-of-range index, when the implicit enumeration fails and when an
\* enumeration reports count 0
C22_IndexInBounds ==
    \A s \in Swapchains :
        (last.swapchain = s /\ last.op \in {Acquire, Wait, Release} /\ last.index # NoValue)
        => InBounds(imageStates[s], last.index)

\* C24: each image whose tracked state is Acquired or Waited occurs in the
\* acquired queue, after any sequence of events, with or without violations
C24_InUseIsQueued ==
    \A s \in Swapchains : InUse(s) \subseteq Members(acquiredSwapchains[s])

\* C24 witness: after an image was acquired twice and released once, a Wait
\* has put it from Released to Waited, with the second entry still queued
C24_Witness ==
    \E s \in Swapchains :
        /\ last.op = Wait /\ last.swapchain = s /\ last.before = "Released"
        /\ ~conformant[s] /\ WaitWrongState \in last.diags
        /\ acquiredSwapchains[s] = <<0>> /\ imageStates[s] # <<>>
        /\ At(imageStates[s], 0) = "Waited"

\* C25: as long as no diagnostic has been raised on a swapchain, the queue holds
\* no index twice, its members are exactly the images tracked as Acquired or
\* Waited, and only the image at the queue front can be Waited
C25_ConformantQueue ==
    \A s \in Swapchains :
        conformant[s]
        => LET queue == acquiredSwapchains[s]
           IN  /\ \A j, k \in 1..Len(queue) : queue[j] = queue[k] => j = k
               /\ Members(queue) = InUse(s)
               /\ \A i \in InUse(s) :
                     At(imageStates[s], i) = "Waited" => i = Head(queue)

\* C25 where every queued index is one imageStates holds
C25_ConformantQueueInBounds ==
    \A s \in Swapchains :
        (conformant[s] /\ \A i \in Members(acquiredSwapchains[s]) :
                              InBounds(imageStates[s], i))
        => LET queue == acquiredSwapchains[s]
           IN  /\ \A j, k \in 1..Len(queue) : queue[j] = queue[k] => j = k
               /\ Members(queue) = InUse(s)
               /\ \A i \in InUse(s) :
                     At(imageStates[s], i) = "Waited" => i = Head(queue)

\* C28: a successful Acquire raises 'Out-of-bounds image index.' exactly when
\* the index is not below imageStates.size(), whether imageStates was populated
\* before the call or by the implicit enumeration of the call itself
C28_OutOfBoundsReported ==
    \A s \in Swapchains :
        Succeeded(Acquire, s)
        => (OutOfBounds \in last.diags <=> ~InBounds(imageStates[s], last.index))

\* C28 on a swapchain whose imageStates was populated before the call
C28_OutOfBoundsReportedWhenPopulated ==
    \A s \in Swapchains :
        (Succeeded(Acquire, s) /\ ~last.probe)
        => (OutOfBounds \in last.diags <=> ~InBounds(imageStates[s], last.index))

\* C29: a successful Enumerate on a static swapchain that reports a count other
\* than 1 raises 'Invalid image count %d for static swapchain.', on the first
\* and on every later such call, and no Enumerate on a non-static swapchain
\* raises it
C29_StaticCountReported ==
    \A s \in Swapchains :
        (Succeeded(Enumerate, s) /\ last.count # NoValue)
        => (StaticCount \in last.diags <=> (isStatic[s] /\ last.count # 1))

\* C29 witness: the diagnostic raised again by a later enumeration of a static
\* swapchain that already holds image states
C29_Witness ==
    \E s \in Swapchains :
        /\ Succeeded(Enumerate, s) /\ isStatic[s] /\ last.count = 2
        /\ last.sizeBefore = 2 /\ ~last.conformantBefore
        /\ StaticCount \in last.diags

\* the state of image i of s before a call: an image the call itself allocates
\* starts as Created
StateBefore(s, i) ==
    IF i <= Len(imageStates[s]) THEN imageStates[s][i] ELSE "Created"

\* the images of s whose state this step changes, counted from 0
ChangedImages(s) ==
    {i \in 0..(Len(imageStates'[s]) - 1) : imageStates'[s][i + 1] # StateBefore(s, i + 1)}

\* C26: an Acquire, Wait or Release changes the state of no image but the
\* acquired one, respectively the one at the queue front; an Enumerate on a
\* swapchain whose imageStates is populated changes no image state; no
\* Enumerate changes the queue; and no call on a swapchain changes the state
\* of another swapchain
C26_FrameEffect ==
    [][\A s \in Swapchains :
         last'.swapchain = s
         => /\ \A o \in Swapchains \ {s} : Attached(o)' = Attached(o)
            /\ last'.op = Acquire
               => /\ ChangedImages(s) \subseteq {last'.index}
                  /\ imageStates[s] # <<>> => Len(imageStates'[s]) = Len(imageStates[s])
            /\ last'.op \in {Wait, Release}
               => /\ Len(imageStates'[s]) = Len(imageStates[s])
                  /\ ChangedImages(s) \subseteq
                        (IF acquiredSwapchains[s] = <<>> THEN {}
                                                         ELSE {Head(acquiredSwapchains[s])})
            /\ last'.op = Enumerate
               => /\ imageStates[s] # <<>> => imageStates'[s] = imageStates[s]
                  /\ acquiredSwapchains'[s] = acquiredSwapchains[s]]_vars

\* C26 witness: the second of two images was acquired while the first was in
\* Waited state and the image of the other swapchain was waited for
C26_Witness ==
    /\ last.op = Acquire /\ last.swapchain = "swapchain1" /\ last.index = 1
    /\ imageStates["swapchain1"] = <<"Waited", "Acquired">>
    /\ imageStates["swapchain2"] = <<"Waited">>
    /\ acquiredSwapchains["swapchain2"] = <<0>>

\* sequence p is the beginning of sequence q
IsPrefix(p, q) == Len(p) <= Len(q) /\ p = SubSeq(q, 1, Len(p))

\* C23: with several threads in Acquire, Wait and Release on one swapchain, the
\* indices are pushed to the acquired queue in the order in which the runtime
\* handed them out (looked at where every index handed out is one imageStates
\* holds, so that no out-of-bounds access is involved)
C23_RuntimeOrderKept ==
    \A s \in Swapchains :
        (history[s].on /\ \A i \in Members(history[s].performed) :
                              InBounds(imageStates[s], i))
        => IsPrefix(history[s].pushed, history[s].performed)

\* C23, what the mutex does give: the indices pushed are among those the
\* runtime handed out, each at most as often, and the queue holds the pushed
\* indices in the order in which the hooks took the mutex
C23_PushedWerePerformed ==
    \A s \in Swapchains :
        history[s].on
        => /\ Len(history[s].pushed) <= Len(history[s].performed)
           /\ \A i \in BothIndices :
                 Cardinality({k \in 1..Len(history[s].pushed) : history[s].pushed[k] = i})
                 <= Cardinality({k \in 1..Len(history[s].performed) :
                                    history[s].performed[k] = i})
           /\ \E n \in 0..Len(history[s].pushed) :
                 acquiredSwapchains[s] =
                    SubSeq(history[s].pushed, n + 1, Len(history[s].pushed))

C21_PresentBetweenRegisterAndUnregister ==
    /\ \A key \in HandleKeys :
          /\ registry.balance[key] \in {0, 1}
          /\ key \in registry.present <=> registry.balance[key] = 1
    /\ registry.op = "register"
       => /\ registry.outcome \in {"ok", "DuplicateHandle"}
          /\ registry.key \in registry.present
          /\ registry.changed <=> registry.outcome = "ok"
    /\ registry.op = "lookup"
       => /\ registry.outcome = (IF registry.key \in registry.present
                                 THEN "ok" ELSE "UnknownHandle")
          /\ ~registry.changed
    /\ registry.op = "unregister"
       => /\ registry.outcome \in {"ok", "UnknownHandle"}
          /\ registry.key \notin registry.present
          /\ registry.changed <=> registry.outcome = "ok"

\* C21 witness: a second unregister of a key failed, with the same handle value
\* still registered under the other object type
C21_Witness ==
    /\ registry.op = "unregister" /\ registry.outcome = "UnknownHandle"
    /\ registry.key = <<1, "XR_OBJECT_TYPE_SWAPCHAIN">>
    /\ registry.key \in registry.freed
    /\ registry.present = {<<1, "XR_OBJECT_TYPE_SESSION">>}

\* the positions of the calls of a method in the last Build
CallsOf(method) ==
    {k \in 1..Len(builder.calls) : builder.calls[k].call = method}

\* the last Build issued one MakePrimitive per primitive builder it found, each
\* with the material created for the material index of that builder, then
\* DropLoaderCaches, and left the builder without model, glTF model and
\* primitive builders
BuiltAll ==
    /\ Cardinality(CallsOf("MakePrimitive")) = Cardinality(builder.found.primitiveBuilderMap)
    /\ \A index \in builder.found.primitiveBuilderMap :
          \E k \in CallsOf("MakePrimitive") :
             /\ builder.calls[k].index = index
             /\ \E c \in CallsOf("CreateFlatMaterial") \cup CallsOf("CreateMaterial") :
                   /\ c < k
                   /\ builder.calls[c].index = index
                   /\ builder.calls[c].material = builder.calls[k].material
    /\ CallsOf("DropLoaderCaches") = {Len(builder.calls)}
    /\ builder.primitives = InOrder(builder.found.primitiveBuilderMap)
    /\ ~builder.pbrModel /\ ~builder.gltfModel /\ builder.primitiveBuilderMap = {}

\* the last Build left the members of the builder as it found them
BuilderUntouched ==
    /\ builder.pbrModel = builder.found.pbrModel
    /\ builder.gltfModel = builder.found.gltfModel
    /\ builder.materials = builder.found.materials
    /\ builder.primitiveBuilderMap = builder.found.primitiveBuilderMap

C30_ReturnedReached ==
    /\ builder.outcome = "returned" /\ builder.builds = 1
    /\ builder.found.primitiveBuilderMap = {0 - 1, 0, 1}
    /\ Len(builder.calls) = 17

====
